---- MODULE Spec2Model ----
(***************************************************************************)
(* StyleMind backend (src/backend/server.py): the in-memory user store,    *)
(* the wardrobe store, the swipe log with the style-DNA update, the        *)
(* outfit suggestion and the wardrobe gap report; the conversation store   *)
(* of src/backend/chat_service.py; the requests in flight on the event     *)
(* loop.                                                                   *)
(*                                                                         *)
(* Scores are kept in integer hundredths (0.05 is 5, 1.0 is 100).          *)
(* Optional[...] request fields are sequences of length 0 (None) or 1.     *)
(* uuid4 identities are consecutive naturals: a fresh one is the count of  *)
(* identities handed out so far plus one. A creation timestamp is the      *)
(* ordinal of the creation.                                                *)
(***************************************************************************)
EXTENDS Integers, Sequences, FiniteSets, TLC

VARIABLES users_db, wardrobe_db, swipes_db, items_created, swipes_created,
          GEMINI_API_KEY, resp, conversations, lists, tasks

vars == <<users_db, wardrobe_db, swipes_db, items_created, swipes_created,
          GEMINI_API_KEY, resp, conversations, lists, tasks>>

----------------------------------------------------------------------------
(* Bounds of the model *)

\* Spec: users, swipes and wardrobe items created in one run, together
MaxCreated == 2

\* SpecSwipes: swipes recorded for the one user
MaxDeepSwipes == 11

\* SpecOutfit: wardrobe items created in one run
MaxItems == 3

----------------------------------------------------------------------------
(* Program constants, in hundredths *)

LikeDelta == 5

SuperlikeDelta == 10

\* A dislike as strong as a like
DislikeDeltaSymmetric == LikeDelta

DislikeDelta == 3

ScoreMax == 100

ScoreMin == 0

StyleKeys == {"minimalist", "casual_chic", "streetwear", "bohemian", "classic", "edgy"}

----------------------------------------------------------------------------
(* Helpers for Python idioms *)

None == <<>>

Some(v) == <<v>>

IsNone(o) == Len(o) = 0

\* dict.get(key, default)
Get(db, key, default) == IF key \in DOMAIN db THEN db[key] ELSE default

\* db[key] = value, adding the key when it is absent
Put(db, key, value) ==
    [k \in DOMAIN db \cup {key} |-> IF k = key THEN value ELSE db[k]]

\* x in list
In(x, list) == \E i \in 1..Len(list) : list[i] = x

Min(a, b) == IF a < b THEN a ELSE b

Max(a, b) == IF a > b THEN a ELSE b

\* {k: v for k, v in update.dict().items() if v is not None}; target.update(...)
MergeUpdate(target, update) ==
    [k \in DOMAIN target |->
        IF k \in DOMAIN update /\ ~IsNone(update[k]) THEN update[k][1] ELSE target[k]]

\* An id no create_user call ever returns
NoSuchUser == MaxCreated + 1

----------------------------------------------------------------------------
(* Users *)

DefaultStyleDna == [k \in StyleKeys |-> 0]

\* User(**user_data.dict()).dict(), for a gender that is a string
NewUser(id, name, gender) ==
    [id |-> id, name |-> name, gender |-> gender,
     profile_complete |-> FALSE, onboarding_complete |-> FALSE,
     swipes_count |-> 0, style_dna |-> DefaultStyleDna]

\* CreateUser whose id is not fresh: every user is stored under the first id
CreateUserSameId(name, gender) ==
    /\ IF IsNone(gender)
       THEN /\ users_db' = users_db
            /\ resp' = [op |-> "create_user", status |-> 500, body |-> None]
       ELSE /\ users_db' = Put(users_db, 1, NewUser(1, name, gender[1]))
            /\ resp' = [op |-> "create_user", status |-> 200, body |-> Some(1)]
    /\ UNCHANGED <<wardrobe_db, swipes_db, items_created, swipes_created,
                   GEMINI_API_KEY,
                       conversations, lists, tasks>>

\* POST /users. User.gender is a plain str: a missing gender (None) fails
\* the model's validation inside the handler and nothing is stored.
CreateUser(name, gender) ==
    LET id == Cardinality(DOMAIN users_db) + 1
    IN  /\ IF IsNone(gender)
           THEN /\ users_db' = users_db
                /\ resp' = [op |-> "create_user", status |-> 500,
                            body |-> None]
           ELSE /\ users_db' = Put(users_db, id, NewUser(id, name, gender[1]))
                /\ resp' = [op |-> "create_user", status |-> 200,
                            body |-> Some(id)]
        /\ UNCHANGED <<wardrobe_db, swipes_db, items_created, swipes_created,
                       GEMINI_API_KEY,
                       conversations, lists, tasks>>

\* PUT /users/{user_id}
UpdateUser(user_id, user_update) ==
    /\ IF user_id \notin DOMAIN users_db
       THEN /\ users_db' = users_db
            /\ resp' = [op |-> "update_user", status |-> 404,
                        body |-> None]
       ELSE /\ users_db' = [users_db EXCEPT ![user_id] = MergeUpdate(@, user_update)]
            /\ resp' = [op |-> "update_user", status |-> 200,
                        body |-> Some(user_id)]
    /\ UNCHANGED <<wardrobe_db, swipes_db, items_created, swipes_created,
                   GEMINI_API_KEY,
                       conversations, lists, tasks>>

----------------------------------------------------------------------------
(* Swipes and the style DNA *)

\* ApplyFeedback without min(1.0, ...) and max(0.0, ...)
ApplyFeedbackUnclamped(style_dna, category, action) ==
    IF category \in DOMAIN style_dna
    THEN IF action = "like"
         THEN [style_dna EXCEPT ![category] = @ + LikeDelta]
         ELSE IF action = "superlike"
         THEN [style_dna EXCEPT ![category] = @ + SuperlikeDelta]
         ELSE IF action = "dislike"
         THEN [style_dna EXCEPT ![category] = @ - DislikeDelta]
         ELSE style_dna
    ELSE style_dna

\* ApplyFeedback with a final else that treats any other action as a dislike
ApplyFeedbackElseDislike(style_dna, category, action) ==
    IF category \in DOMAIN style_dna
    THEN IF action = "like"
         THEN [style_dna EXCEPT ![category] = Min(ScoreMax, @ + LikeDelta)]
         ELSE IF action = "superlike"
         THEN [style_dna EXCEPT ![category] = Min(ScoreMax, @ + SuperlikeDelta)]
         ELSE [style_dna EXCEPT ![category] = Max(ScoreMin, @ - DislikeDelta)]
    ELSE Put(style_dna, category, ScoreMin)

\* The update of style_dna inside create_swipe
ApplyFeedback(style_dna, category, action) ==
    IF category \in DOMAIN style_dna
    THEN IF action = "like"
         THEN [style_dna EXCEPT ![category] = Min(ScoreMax, @ + LikeDelta)]
         ELSE IF action = "superlike"
         THEN [style_dna EXCEPT ![category] = Min(ScoreMax, @ + SuperlikeDelta)]
         ELSE IF action = "dislike"
         THEN [style_dna EXCEPT ![category] = Max(ScoreMin, @ - DislikeDelta)]
         ELSE style_dna
    ELSE style_dna

\* SwipeUser counting only the swipes that name a key of the vector
SwipeUserCountRecognized(user, category, action) ==
    [user EXCEPT !.style_dna = ApplyFeedback(user.style_dna, category, action),
                 !.swipes_count = IF category \in DOMAIN user.style_dna
                                  THEN user.swipes_count + 1
                                  ELSE user.swipes_count]

\* The user record create_swipe writes back
SwipeUser(user, category, action) ==
    [user EXCEPT !.style_dna = ApplyFeedback(user.style_dna, category, action),
                 !.swipes_count = user.swipes_count + 1]

\* CreateSwipe with the newest record put first
CreateSwipeNewestFirst(user_id, outfit_id, action, style_category) ==
    LET swipe == [id |-> swipes_created + 1, user_id |-> user_id,
                  outfit_id |-> outfit_id, action |-> action,
                  style_category |-> style_category]
    IN  /\ swipes_created' = swipes_created + 1
        /\ swipes_db' = Put(swipes_db, user_id,
                            <<swipe>> \o Get(swipes_db, user_id, <<>>))
        /\ users_db' = IF user_id \in DOMAIN users_db
                       THEN [users_db EXCEPT
                               ![user_id] = SwipeUser(@, style_category, action)]
                       ELSE users_db
        /\ resp' = [op |-> "create_swipe", status |-> 200,
                    body |-> Some(swipe)]
        /\ UNCHANGED <<wardrobe_db, items_created, GEMINI_API_KEY,
                       conversations, lists, tasks>>

\* CreateSwipe that makes a user record for a user id that has none
CreateSwipeMakingUser(user_id, outfit_id, action, style_category) ==
    LET swipe == [id |-> swipes_created + 1, user_id |-> user_id,
                  outfit_id |-> outfit_id, action |-> action,
                  style_category |-> style_category]
    IN  /\ swipes_created' = swipes_created + 1
        /\ swipes_db' = Put(swipes_db, user_id,
                            Append(Get(swipes_db, user_id, <<>>), swipe))
        /\ users_db' = IF user_id \in DOMAIN users_db
                       THEN [users_db EXCEPT
                               ![user_id] = SwipeUser(@, style_category, action)]
                       ELSE Put(users_db, user_id,
                                SwipeUser(NewUser(user_id, "", "female"),
                                          style_category, action))
        /\ resp' = [op |-> "create_swipe", status |-> 200,
                    body |-> Some(swipe)]
        /\ UNCHANGED <<wardrobe_db, items_created, GEMINI_API_KEY,
                       conversations, lists, tasks>>

\* The body of create_swipe. It holds no await, so the event loop runs it
\* from its first line to its return without another handler in between.
create_swipe(user_id, outfit_id, action, style_category) ==
    LET swipe == [id |-> swipes_created + 1, user_id |-> user_id,
                  outfit_id |-> outfit_id, action |-> action,
                  style_category |-> style_category]
    IN  /\ swipes_created' = swipes_created + 1
        /\ swipes_db' = Put(swipes_db, user_id,
                            Append(Get(swipes_db, user_id, <<>>), swipe))
        /\ users_db' = IF user_id \in DOMAIN users_db
                       THEN [users_db EXCEPT
                               ![user_id] = SwipeUser(@, style_category, action)]
                       ELSE users_db
        /\ resp' = [op |-> "create_swipe", status |-> 200,
                    body |-> Some(swipe)]
        /\ UNCHANGED <<wardrobe_db, items_created, GEMINI_API_KEY,
                       conversations, lists>>

\* POST /swipes, received and served with no other request in between
CreateSwipe(user_id, outfit_id, action, style_category) ==
    /\ create_swipe(user_id, outfit_id, action, style_category)
    /\ UNCHANGED tasks

\* The smallest id no request or call in flight has
NewTask ==
    CHOOSE t \in 1..(Cardinality(DOMAIN tasks) + 1) :
        /\ t \notin DOMAIN tasks
        /\ \A smaller \in 1..(t - 1) : smaller \in DOMAIN tasks

\* db without a key (del db[key])
Del(db, key) == [k \in DOMAIN db \ {key} |-> db[k]]

\* POST /swipes arrives: the server holds the request until the event loop
\* runs its handler
ReceiveSwipe(user_id, outfit_id, action, style_category) ==
    /\ tasks' = Put(tasks, NewTask,
                    [kind |-> "create_swipe", pc |-> "ready", user_id |-> user_id,
                     outfit_id |-> outfit_id, action |-> action,
                     style_category |-> style_category])
    /\ UNCHANGED <<users_db, wardrobe_db, swipes_db, items_created,
                   swipes_created, GEMINI_API_KEY, resp, conversations, lists>>

\* RunSwipe that writes the user record back only when no other swipe of
\* the same user is waiting, as if the record were read on arrival
RunSwipeRacing(t) ==
    /\ t \in DOMAIN tasks
    /\ tasks[t].kind = "create_swipe"
    /\ tasks[t].pc = "ready"
    /\ LET task == tasks[t]
           swipe == [id |-> swipes_created + 1, user_id |-> task.user_id,
                     outfit_id |-> task.outfit_id, action |-> task.action,
                     style_category |-> task.style_category]
           racing == \E other \in DOMAIN tasks \ {t} :
                         /\ tasks[other].kind = "create_swipe"
                         /\ tasks[other].pc = "ready"
                         /\ tasks[other].user_id = task.user_id
       IN  /\ swipes_created' = swipes_created + 1
           /\ swipes_db' = Put(swipes_db, task.user_id,
                               Append(Get(swipes_db, task.user_id, <<>>), swipe))
           /\ users_db' = IF task.user_id \in DOMAIN users_db /\ ~racing
                          THEN [users_db EXCEPT ![task.user_id] =
                                  SwipeUser(@, task.style_category, task.action)]
                          ELSE users_db
           /\ resp' = [op |-> "create_swipe", status |-> 200,
                       body |-> Some(swipe)]
    /\ tasks' = [tasks EXCEPT ![t].pc = "done"]
    /\ UNCHANGED <<wardrobe_db, items_created, GEMINI_API_KEY,
                   conversations, lists>>

\* The event loop runs the handler of a waiting POST /swipes
RunSwipe(t) ==
    /\ t \in DOMAIN tasks
    /\ tasks[t].kind = "create_swipe"
    /\ tasks[t].pc = "ready"
    /\ create_swipe(tasks[t].user_id, tasks[t].outfit_id, tasks[t].action,
                    tasks[t].style_category)
    /\ tasks' = [tasks EXCEPT ![t].pc = "done"]

\* The response of a served request is sent
Respond(t) ==
    /\ t \in DOMAIN tasks
    /\ tasks[t].pc = "done"
    /\ tasks' = Del(tasks, t)
    /\ UNCHANGED <<users_db, wardrobe_db, swipes_db, items_created,
                   swipes_created, GEMINI_API_KEY, resp, conversations, lists>>

\* GET /swipes/{user_id}
GetSwipes(user_id) ==
    /\ resp' = [op |-> "get_swipes", status |-> 200,
                request |-> [user_id |-> user_id],
                body |-> Get(swipes_db, user_id, <<>>)]
    /\ UNCHANGED <<users_db, wardrobe_db, swipes_db, items_created,
                   swipes_created, GEMINI_API_KEY,
                       conversations, lists, tasks>>

----------------------------------------------------------------------------
(* Wardrobe store *)

\* value or default
OrDefault(opt, empty, default) ==
    IF IsNone(opt) \/ opt[1] = empty THEN default ELSE opt[1]

\* WardrobeItem(...).dict() as built by create_wardrobe_item
NewItem(id, user_id, category, occasions) ==
    [id |-> id, user_id |-> user_id,
     category |-> OrDefault(category, "", "Unknown"),
     occasions |-> OrDefault(occasions, <<>>, <<>>),
     favorite |-> FALSE, created_at |-> id]

\* AddItem with the new item put first
AddItemFirst(user_id, category, occasions) ==
    LET item == NewItem(items_created + 1, user_id, category, occasions)
    IN  /\ items_created' = items_created + 1
        /\ wardrobe_db' = Put(wardrobe_db, user_id,
                              <<item>> \o Get(wardrobe_db, user_id, <<>>))
        /\ resp' = [op |-> "create_wardrobe_item", status |-> 200,
                    request |-> [user_id |-> user_id, category |-> category,
                                 occasions |-> occasions],
                    body |-> Some(item)]
        /\ UNCHANGED <<users_db, swipes_db, swipes_created, GEMINI_API_KEY,
                       conversations, lists, tasks>>

\* POST /wardrobe
AddItem(user_id, category, occasions) ==
    LET item == NewItem(items_created + 1, user_id, category, occasions)
    IN  /\ items_created' = items_created + 1
        /\ wardrobe_db' = Put(wardrobe_db, user_id,
                              Append(Get(wardrobe_db, user_id, <<>>), item))
        /\ resp' = [op |-> "create_wardrobe_item", status |-> 200,
                    request |-> [user_id |-> user_id, category |-> category,
                                 occasions |-> occasions],
                    body |-> Some(item)]
        /\ UNCHANGED <<users_db, swipes_db, swipes_created, GEMINI_API_KEY,
                       conversations, lists, tasks>>

\* GetWardrobe with every given category taken as a filter
GetWardrobeAlwaysFiltered(user_id, category) ==
    LET items == Get(wardrobe_db, user_id, <<>>)
        listed == IF category # None
                  THEN SelectSeq(items, LAMBDA i : i.category = category[1])
                  ELSE items
    IN  /\ resp' = [op |-> "get_wardrobe", status |-> 200,
                    request |-> [user_id |-> user_id, category |-> category],
                    body |-> listed]
        /\ UNCHANGED <<users_db, wardrobe_db, swipes_db, items_created,
                       swipes_created, GEMINI_API_KEY,
                       conversations, lists, tasks>>

\* GET /wardrobe/{user_id}?category=
GetWardrobe(user_id, category) ==
    LET items == Get(wardrobe_db, user_id, <<>>)
        listed == IF category \notin {None, Some(""), Some("All")}
                  THEN SelectSeq(items, LAMBDA i : i.category = category[1])
                  ELSE items
    IN  /\ resp' = [op |-> "get_wardrobe", status |-> 200,
                    request |-> [user_id |-> user_id, category |-> category],
                    body |-> listed]
        /\ UNCHANGED <<users_db, wardrobe_db, swipes_db, items_created,
                       swipes_created, GEMINI_API_KEY,
                       conversations, lists, tasks>>

\* The places <<user_id, index>> where the scan over wardrobe_db.values()
\* meets an item with this id
Locate(item_id) ==
    {p \in {<<u, i>> : u \in DOMAIN wardrobe_db, i \in 1..items_created} :
        /\ p[2] <= Len(wardrobe_db[p[1]])
        /\ wardrobe_db[p[1]][p[2]].id = item_id}

\* list.pop() for list.pop(i)
PopLast(list, i) == SubSeq(list, 1, Len(list) - 1)

\* list.pop(i)
Pop(list, i) == [j \in 1..(Len(list) - 1) |-> IF j < i THEN list[j] ELSE list[j + 1]]

\* GetWardrobeItem answering with the first item of the owner's list
GetWardrobeItemFirst(item_id) ==
    /\ IF Locate(item_id) = {}
       THEN resp' = [op |-> "get_wardrobe_item", status |-> 404,
                     request |-> [item_id |-> item_id], body |-> None]
       ELSE LET p == CHOOSE q \in Locate(item_id) : TRUE
            IN  resp' = [op |-> "get_wardrobe_item", status |-> 200,
                         request |-> [item_id |-> item_id],
                         body |-> Some(wardrobe_db[p[1]][1])]
    /\ UNCHANGED <<users_db, wardrobe_db, swipes_db, items_created,
                   swipes_created, GEMINI_API_KEY,
                       conversations, lists, tasks>>

\* GET /wardrobe/item/{item_id}
GetWardrobeItem(item_id) ==
    /\ IF Locate(item_id) = {}
       THEN resp' = [op |-> "get_wardrobe_item", status |-> 404,
                     request |-> [item_id |-> item_id], body |-> None]
       ELSE LET p == CHOOSE q \in Locate(item_id) : TRUE
            IN  resp' = [op |-> "get_wardrobe_item", status |-> 200,
                         request |-> [item_id |-> item_id],
                         body |-> Some(wardrobe_db[p[1]][p[2]])]
    /\ UNCHANGED <<users_db, wardrobe_db, swipes_db, items_created,
                   swipes_created, GEMINI_API_KEY,
                       conversations, lists, tasks>>

\* UpdateItem with the updated item moved to the end of its list
UpdateItemMoved(item_id, item_update) ==
    /\ IF Locate(item_id) = {}
       THEN /\ wardrobe_db' = wardrobe_db
            /\ resp' = [op |-> "update_wardrobe_item", status |-> 404,
                        body |-> None]
       ELSE LET p == CHOOSE q \in Locate(item_id) : TRUE
                item == MergeUpdate(wardrobe_db[p[1]][p[2]], item_update)
            IN  /\ wardrobe_db' = [wardrobe_db EXCEPT
                                      ![p[1]] = Append(Pop(@, p[2]), item)]
                /\ resp' = [op |-> "update_wardrobe_item", status |-> 200,
                            body |-> Some(item.id)]
    /\ UNCHANGED <<users_db, swipes_db, items_created, swipes_created,
                   GEMINI_API_KEY,
                       conversations, lists, tasks>>

\* UpdateItem with the creation timestamp taken anew
UpdateItemRestamped(item_id, item_update) ==
    /\ IF Locate(item_id) = {}
       THEN /\ wardrobe_db' = wardrobe_db
            /\ resp' = [op |-> "update_wardrobe_item", status |-> 404,
                        body |-> None]
       ELSE LET p == CHOOSE q \in Locate(item_id) : TRUE
                item == [MergeUpdate(wardrobe_db[p[1]][p[2]], item_update)
                            EXCEPT !.created_at = items_created + 1]
            IN  /\ wardrobe_db' = [wardrobe_db EXCEPT ![p[1]][p[2]] = item]
                /\ resp' = [op |-> "update_wardrobe_item", status |-> 200,
                            body |-> Some(item.id)]
    /\ UNCHANGED <<users_db, swipes_db, items_created, swipes_created,
                   GEMINI_API_KEY,
                       conversations, lists, tasks>>

\* PUT /wardrobe/{item_id}
UpdateItem(item_id, item_update) ==
    /\ IF Locate(item_id) = {}
       THEN /\ wardrobe_db' = wardrobe_db
            /\ resp' = [op |-> "update_wardrobe_item", status |-> 404,
                        body |-> None]
       ELSE LET p == CHOOSE q \in Locate(item_id) : TRUE
                item == MergeUpdate(wardrobe_db[p[1]][p[2]], item_update)
            IN  /\ wardrobe_db' = [wardrobe_db EXCEPT ![p[1]][p[2]] = item]
                /\ resp' = [op |-> "update_wardrobe_item", status |-> 200,
                            body |-> Some(item.id)]
    /\ UNCHANGED <<users_db, swipes_db, items_created, swipes_created,
                   GEMINI_API_KEY,
                       conversations, lists, tasks>>

\* DeleteItem that succeeds when there is nothing to delete
DeleteItemLenient(item_id) ==
    /\ IF Locate(item_id) = {}
       THEN /\ wardrobe_db' = wardrobe_db
            /\ resp' = [op |-> "delete_wardrobe_item", status |-> 200,
                        body |-> None]
       ELSE LET p == CHOOSE q \in Locate(item_id) : TRUE
            IN  /\ wardrobe_db' = [wardrobe_db EXCEPT ![p[1]] = Pop(@, p[2])]
                /\ resp' = [op |-> "delete_wardrobe_item", status |-> 200,
                            body |-> None]
    /\ UNCHANGED <<users_db, swipes_db, items_created, swipes_created,
                   GEMINI_API_KEY,
                       conversations, lists, tasks>>

\* DELETE /wardrobe/{item_id}
DeleteItem(item_id) ==
    /\ IF Locate(item_id) = {}
       THEN /\ wardrobe_db' = wardrobe_db
            /\ resp' = [op |-> "delete_wardrobe_item", status |-> 404,
                        body |-> None]
       ELSE LET p == CHOOSE q \in Locate(item_id) : TRUE
            IN  /\ wardrobe_db' = [wardrobe_db EXCEPT ![p[1]] = Pop(@, p[2])]
                /\ resp' = [op |-> "delete_wardrobe_item", status |-> 200,
                            body |-> None]
    /\ UNCHANGED <<users_db, swipes_db, items_created, swipes_created,
                   GEMINI_API_KEY,
                       conversations, lists, tasks>>

----------------------------------------------------------------------------
(* Outfit suggestion *)

\* occasion_map whose default is the "work" entry
occasion_map_default_work(occasion) ==
    CASE occasion = "work"   -> <<"Work", "Formal">>
      [] occasion = "casual" -> <<"Casual">>
      [] occasion = "date"   -> <<"Date", "Party">>
      [] occasion = "party"  -> <<"Party", "Date">>
      [] OTHER               -> <<"Work", "Formal">>

\* occasion_map.get(request.occasion, ["Casual"])
occasion_map(occasion) ==
    CASE occasion = "work"   -> <<"Work", "Formal">>
      [] occasion = "casual" -> <<"Casual">>
      [] occasion = "date"   -> <<"Date", "Party">>
      [] occasion = "party"  -> <<"Party", "Date">>
      [] OTHER               -> <<"Casual">>

\* tops as every item that is neither bottoms nor shoes
tops_not_bottoms_or_shoes(wardrobe_items) ==
    SelectSeq(wardrobe_items, LAMBDA item : item.category \notin {"Bottoms", "Shoes"})

tops(wardrobe_items) ==
    SelectSeq(wardrobe_items, LAMBDA item : item.category \in {"Tops", "Dresses"})

bottoms(wardrobe_items) ==
    SelectSeq(wardrobe_items, LAMBDA item : item.category = "Bottoms")

\* shoes restricted to the items that carry an occasion tag
shoes_tagged(wardrobe_items) ==
    SelectSeq(wardrobe_items,
              LAMBDA item : item.category = "Shoes" /\ item.occasions # <<>>)

shoes(wardrobe_items) ==
    SelectSeq(wardrobe_items, LAMBDA item : item.category = "Shoes")

\* [t for t in pool if any(occ in t["occasions"] for occ in target_occasions)]
matching(pool, target_occasions) ==
    SelectSeq(pool, LAMBDA t :
        \E k \in 1..Len(target_occasions) : In(target_occasions[k], t.occasions))

\* selected without the occasion match
selected_first(pool, target_occasions) == pool[1]

\* matching[0] if matching else pool[0]
selected(pool, target_occasions) ==
    IF matching(pool, target_occasions) # <<>>
    THEN matching(pool, target_occasions)[1]
    ELSE pool[1]

\* The condition under which the fallback adds a bottom
wants_bottom(wardrobe_items) ==
    /\ bottoms(wardrobe_items) # <<>>
    /\ tops(wardrobe_items) # <<>>
    /\ tops(wardrobe_items)[1].category # "Dresses"

\* outfit_items of the fallback selection
RuleBasedOutfit(wardrobe_items, occasion) ==
    LET target_occasions == occasion_map(occasion)
        top_part ==
            IF tops(wardrobe_items) # <<>>
            THEN LET selected_top == selected(tops(wardrobe_items), target_occasions)
                 IN  <<[id |-> selected_top.id, type |-> selected_top.category]>>
            ELSE <<>>
        bottom_part ==
            IF wants_bottom(wardrobe_items)
            THEN LET selected_bottom ==
                         selected(bottoms(wardrobe_items), target_occasions)
                 IN  <<[id |-> selected_bottom.id, type |-> "Bottoms"]>>
            ELSE <<>>
        shoes_part ==
            IF shoes(wardrobe_items) # <<>>
            THEN <<[id |-> shoes(wardrobe_items)[1].id, type |-> "Shoes"]>>
            ELSE <<>>
    IN  top_part \o bottom_part \o shoes_part

\* The wardrobe item with this id (wardrobe_map[item_id])
wardrobe_map(wardrobe_items, item_id) ==
    wardrobe_items[CHOOSE i \in 1..Len(wardrobe_items) : wardrobe_items[i].id = item_id]

\* AiOutfit that keeps every id stored in any user's wardrobe
RECURSIVE AiOutfitAnyOwner(_, _)
AiOutfitAnyOwner(wardrobe_items, ai_outfit) ==
    IF ai_outfit = <<>> THEN <<>>
    ELSE LET ai_item == Head(ai_outfit)
             rest == AiOutfitAnyOwner(wardrobe_items, Tail(ai_outfit))
             every_item == UNION {{wardrobe_db[u][i] : i \in 1..Len(wardrobe_db[u])} :
                                      u \in DOMAIN wardrobe_db}
         IN  IF \E item \in every_item : item.id = ai_item.id
             THEN <<[id |-> ai_item.id,
                     type |-> IF IsNone(ai_item.type)
                              THEN (CHOOSE item \in every_item :
                                        item.id = ai_item.id).category
                              ELSE ai_item.type[1]]>> \o rest
             ELSE rest

\* outfit_with_images: the AI's items whose id is in the user's wardrobe
RECURSIVE AiOutfit(_, _)
AiOutfit(wardrobe_items, ai_outfit) ==
    IF ai_outfit = <<>> THEN <<>>
    ELSE LET ai_item == Head(ai_outfit)
             rest == AiOutfit(wardrobe_items, Tail(ai_outfit))
         IN  IF \E i \in 1..Len(wardrobe_items) : wardrobe_items[i].id = ai_item.id
             THEN <<[id |-> ai_item.id,
                     type |-> IF IsNone(ai_item.type)
                              THEN wardrobe_map(wardrobe_items, ai_item.id).category
                              ELSE ai_item.type[1]]>> \o rest
             ELSE rest

\* OutfitBody with a Gateway failure answered as a failure
OutfitBodyFailing(user_id, occasion, ai) ==
    LET wardrobe_items == Get(wardrobe_db, user_id, <<>>)
    IN  IF wardrobe_items = <<>> \/ (GEMINI_API_KEY # "" /\ ai.kind # "ok")
        THEN [success |-> FALSE, occasion |-> None, outfit |-> None,
              ai_powered |-> None]
        ELSE IF /\ GEMINI_API_KEY # ""
                /\ AiOutfit(wardrobe_items, ai.outfit) # <<>>
        THEN [success |-> TRUE, occasion |-> Some(occasion),
              outfit |-> Some(AiOutfit(wardrobe_items, ai.outfit)),
              ai_powered |-> Some(TRUE)]
        ELSE [success |-> TRUE, occasion |-> Some(occasion),
              outfit |-> Some(RuleBasedOutfit(wardrobe_items, occasion)),
              ai_powered |-> Some(FALSE)]

\* The body get_outfit_suggestion returns. ai is what the call of the AI
\* Gateway does: kind "raise", kind "failure" (success False) or kind "ok"
\* with the outfit it names.
OutfitBody(user_id, occasion, ai) ==
    LET wardrobe_items == Get(wardrobe_db, user_id, <<>>)
    IN  IF wardrobe_items = <<>>
        THEN [success |-> FALSE, occasion |-> None, outfit |-> None,
              ai_powered |-> None]
        ELSE IF /\ GEMINI_API_KEY # ""
                /\ ai.kind = "ok"
                /\ AiOutfit(wardrobe_items, ai.outfit) # <<>>
        THEN [success |-> TRUE, occasion |-> Some(occasion),
              outfit |-> Some(AiOutfit(wardrobe_items, ai.outfit)),
              ai_powered |-> Some(TRUE)]
        ELSE [success |-> TRUE, occasion |-> Some(occasion),
              outfit |-> Some(RuleBasedOutfit(wardrobe_items, occasion)),
              ai_powered |-> Some(FALSE)]

\* AiCalled with the API key tested before the wardrobe
AiCalledBeforeEmptyCheck(user_id) == GEMINI_API_KEY # ""

\* Whether get_outfit_suggestion reaches gemini.generate_outfit_suggestion
AiCalled(user_id) ==
    /\ Get(wardrobe_db, user_id, <<>>) # <<>>
    /\ GEMINI_API_KEY # ""

\* POST /outfit-suggestion
SelectOutfit(user_id, occasion, ai) ==
    /\ resp' = [op |-> "get_outfit_suggestion", status |-> 200,
                request |-> [user_id |-> user_id, occasion |-> occasion],
                ai_called |-> AiCalled(user_id),
                body |-> OutfitBody(user_id, occasion, ai)]
    /\ UNCHANGED <<users_db, wardrobe_db, swipes_db, items_created,
                   swipes_created, GEMINI_API_KEY,
                       conversations, lists, tasks>>

----------------------------------------------------------------------------
(* Wardrobe gaps *)

GapCategories == {"Tops", "Bottoms", "Dresses", "Outerwear", "Shoes", "Accessories"}

\* category_counts with a key for every category found in the wardrobe
category_counts_any(wardrobe_items) ==
    [cat \in GapCategories \cup {wardrobe_items[i].category : i \in 1..Len(wardrobe_items)} |->
        Cardinality({i \in 1..Len(wardrobe_items) : wardrobe_items[i].category = cat})]

\* The tally of get_wardrobe_gaps
category_counts(wardrobe_items) ==
    [cat \in GapCategories |->
        Cardinality({i \in 1..Len(wardrobe_items) : wardrobe_items[i].category = cat})]

ShoesThreshold == 2

OuterwearThreshold == 1

AccessoriesThreshold == 2

BottomsThreshold == 3

\* gaps with thresholds that are still a gap when reached
gaps_at_most(categories) ==
    (IF categories["Shoes"] <= ShoesThreshold THEN <<"White Sneakers">> ELSE <<>>)
    \o (IF categories["Outerwear"] <= OuterwearThreshold THEN <<"Light Jacket">> ELSE <<>>)
    \o (IF categories["Accessories"] <= AccessoriesThreshold THEN <<"Statement Bag">> ELSE <<>>)
    \o (IF categories["Bottoms"] <= BottomsThreshold THEN <<"Versatile Chinos">> ELSE <<>>)

\* The gaps list of get_wardrobe_gaps, by item name
gaps(categories) ==
    (IF categories["Shoes"] < ShoesThreshold THEN <<"White Sneakers">> ELSE <<>>)
    \o (IF categories["Outerwear"] < OuterwearThreshold THEN <<"Light Jacket">> ELSE <<>>)
    \o (IF categories["Accessories"] < AccessoriesThreshold THEN <<"Statement Bag">> ELSE <<>>)
    \o (IF categories["Bottoms"] < BottomsThreshold THEN <<"Versatile Chinos">> ELSE <<>>)

\* GET /wardrobe-gaps/{user_id}
WardrobeGaps(user_id) ==
    LET categories == category_counts(Get(wardrobe_db, user_id, <<>>))
    IN  /\ resp' = [op |-> "get_wardrobe_gaps", status |-> 200,
                    request |-> [user_id |-> user_id],
                    body |-> [gaps |-> gaps(categories),
                              category_counts |-> categories]]
        /\ UNCHANGED <<users_db, wardrobe_db, swipes_db, items_created,
                       swipes_created, GEMINI_API_KEY,
                       conversations, lists, tasks>>

----------------------------------------------------------------------------
(* Conversation store (ChatService) *)

(* self.conversations maps a user id to a list object. conversations maps  *)
(* the user id to the identity of the list and lists maps an identity to   *)
(* the messages of the list, so that two names of one list see each        *)
(* other's appends. A list nothing refers to any more is gone.             *)

\* if len(history) > 20
HistoryLimit == 20

HumanMessage(content) == [type |-> "human", content |-> content]

AIMessage(content) == [type |-> "ai", content |-> content]

\* The identity of a newly made list
NewList ==
    CHOOSE r \in 1..(Cardinality(DOMAIN lists) + 1) :
        /\ r \notin DOMAIN lists
        /\ \A smaller \in 1..(r - 1) : smaller \in DOMAIN lists

\* The lists that the store or a suspended chat call still refers to
Collect(heap, store, calls) ==
    [r \in {r \in DOMAIN heap :
                \/ \E u \in DOMAIN store : store[u] = r
                \/ \E t \in DOMAIN calls :
                       calls[t].kind = "chat" /\ calls[t].history = r} |-> heap[r]]

\* history[-20:] cut one message too long
LastMessagesOneMore(history) ==
    IF Len(history) > HistoryLimit + 1
    THEN SubSeq(history, Len(history) - HistoryLimit, Len(history))
    ELSE history

\* history[-20:]
LastMessages(history) ==
    IF Len(history) > HistoryLimit
    THEN SubSeq(history, Len(history) - HistoryLimit + 1, Len(history))
    ELSE history

\* ChatService.chat up to "await self.chain.ainvoke(...)": the call makes
\* the user's list if there is none, takes the stored list as history and
\* is suspended at the model call
Chat(user_id, message) ==
    LET absent == user_id \notin DOMAIN conversations
        history == IF absent THEN NewList ELSE conversations[user_id]
    IN  /\ conversations' = IF absent THEN Put(conversations, user_id, history)
                                       ELSE conversations
        /\ lists' = IF absent THEN Put(lists, history, <<>>) ELSE lists
        /\ tasks' = Put(tasks, NewTask,
                        [kind |-> "chat", pc |-> "ainvoke", user_id |-> user_id,
                         message |-> message, history |-> history])
        /\ UNCHANGED <<users_db, wardrobe_db, swipes_db, items_created,
                       swipes_created, GEMINI_API_KEY, resp>>

\* ChatService.chat from the return of the model call on. response is None
\* when the model call raises and the text of the answer otherwise.
ChatResume(t, response) ==
    /\ t \in DOMAIN tasks
    /\ tasks[t].kind = "chat"
    /\ LET call == tasks[t]
           appended == lists[call.history]
                       \o <<HumanMessage(call.message), AIMessage(response[1])>>
           cut == Len(appended) > HistoryLimit
           history == IF cut THEN NewList ELSE call.history
           heap == IF cut
                   THEN Put(Put(lists, call.history, appended),
                            history, LastMessages(appended))
                   ELSE Put(lists, call.history, appended)
       IN  IF IsNone(response)
           THEN /\ conversations' = conversations
                /\ lists' = Collect(lists, conversations, Del(tasks, t))
                /\ resp' = [op |-> "chat", status |-> 200,
                            request |-> [user_id |-> call.user_id,
                                         message |-> call.message],
                            body |-> [success |-> FALSE, message_count |-> None]]
           ELSE /\ conversations' = Put(conversations, call.user_id, history)
                /\ lists' = Collect(heap, Put(conversations, call.user_id, history),
                                    Del(tasks, t))
                /\ resp' = [op |-> "chat", status |-> 200,
                            request |-> [user_id |-> call.user_id,
                                         message |-> call.message],
                            body |-> [success |-> TRUE,
                                      message_count |-> Some(Len(heap[history]) \div 2)]]
    /\ tasks' = Del(tasks, t)
    /\ UNCHANGED <<users_db, wardrobe_db, swipes_db, items_created,
                   swipes_created, GEMINI_API_KEY>>

\* ChatService.clear_conversation
ClearConversation(user_id) ==
    /\ conversations' = Del(conversations, user_id)
    /\ lists' = Collect(lists, Del(conversations, user_id), tasks)
    /\ resp' = [op |-> "clear_conversation", status |-> 200,
                request |-> [user_id |-> user_id], body |-> None]
    /\ UNCHANGED <<users_db, wardrobe_db, swipes_db, items_created,
                   swipes_created, GEMINI_API_KEY, tasks>>

----------------------------------------------------------------------------
(* Requests the specifications draw from *)

Names == {"Ann"}

Genders == {None, Some("female")}

\* Ids a client can name: the users created so far and one that is no user
ClientIds == DOMAIN users_db \cup {NoSuchUser}

NoUserUpdate ==
    [name |-> None, gender |-> None, onboarding_complete |-> None,
     profile_complete |-> None, style_dna |-> None]

UserUpdates ==
    {NoUserUpdate,
     [NoUserUpdate EXCEPT !.onboarding_complete = Some(TRUE)],
     [NoUserUpdate EXCEPT !.style_dna = Some([k \in StyleKeys |-> 98])],
     [NoUserUpdate EXCEPT !.style_dna = Some([k \in {"classic"} |-> 150])]}

CoreUserUpdates == UserUpdates \ {NoUserUpdate}

SwipeActions == {"like", "superlike", "dislike", "skip"}

SwipeCategories == {"classic", "edgy", "grunge"}

Occasions == {"work", "casual", "date", "party", "formal", "Work", ""}

NoItemUpdate == [category |-> None, occasions |-> None, favorite |-> None]

ItemUpdates ==
    {NoItemUpdate, [NoItemUpdate EXCEPT !.occasions = Some(<<>>)]}

\* What the AI Gateway can answer about a wardrobe: it raises, reports a
\* failure, or names items by id (stored or not)
AiItems == {[id |-> i, type |-> t] : i \in 1..(items_created + 1), t \in {None, Some("top")}}

AiAnswers ==
    {[kind |-> "raise", outfit |-> <<>>], [kind |-> "failure", outfit |-> <<>>],
     [kind |-> "ok", outfit |-> <<>>]}
    \cup {[kind |-> "ok", outfit |-> <<a>>] : a \in AiItems}
    \cup {[kind |-> "ok", outfit |-> <<a, b>>] :
              a \in {x \in AiItems : IsNone(x.type)},
              b \in {x \in AiItems : IsNone(x.type)}}

NoResponse == [op |-> "none", status |-> 200, body |-> None]

----------------------------------------------------------------------------
(* Spec: every operation of the core, on small inputs *)

Init ==
    /\ users_db = <<>>
    /\ wardrobe_db = <<>>
    /\ swipes_db = <<>>
    /\ items_created = 0
    /\ swipes_created = 0
    /\ GEMINI_API_KEY \in {"", "key"}
    /\ resp = NoResponse
    /\ conversations = <<>>
    /\ lists = <<>>
    /\ tasks = <<>>

CoreItems == {[category |-> Some("Tops"), occasions |-> Some(<<"Casual">>)],
              [category |-> None, occasions |-> None]}

\* Records created so far
Created == Cardinality(DOMAIN users_db) + swipes_created + items_created

Next ==
    \/ \E name \in Names, gender \in Genders :
          /\ Created < MaxCreated
          /\ CreateUser(name, gender)
    \/ \E user_id \in ClientIds, user_update \in CoreUserUpdates :
          UpdateUser(user_id, user_update)
    \/ \E user_id \in ClientIds, action \in SwipeActions, cat \in SwipeCategories :
          /\ Created < MaxCreated
          /\ CreateSwipe(user_id, "outfit_w1", action, cat)
    \/ \E user_id \in ClientIds, item \in CoreItems :
          /\ Created < MaxCreated
          /\ AddItem(user_id, item.category, item.occasions)
    \/ \E item_id \in 1..(items_created + 1), item_update \in ItemUpdates :
          UpdateItem(item_id, item_update)
    \/ \E item_id \in 1..(items_created + 1) : DeleteItem(item_id)
    \/ \E user_id \in ClientIds, occasion \in {"work", "formal"}, ai \in AiAnswers :
          SelectOutfit(user_id, occasion, ai)
    \/ \E user_id \in ClientIds : WardrobeGaps(user_id)

Spec == Init /\ [][Next]_vars

----------------------------------------------------------------------------
(* SpecSwipes: one newly created user and a long run of swipes on one     *)
(* style category, far enough to reach both ends of the score range       *)

DeepSwipeActions == {"like", "superlike", "dislike"}

DeepSwipeCategories == {"classic"}

InitSwipes ==
    /\ users_db = <<>>
    /\ wardrobe_db = <<>>
    /\ swipes_db = <<>>
    /\ items_created = 0
    /\ swipes_created = 0
    /\ GEMINI_API_KEY = ""
    /\ resp = NoResponse
    /\ conversations = <<>>
    /\ lists = <<>>
    /\ tasks = <<>>

NextSwipes ==
    \/ \E name \in Names :
          /\ DOMAIN users_db = {}
          /\ CreateUser(name, Some("female"))
    \/ \E user_id \in DOMAIN users_db, action \in DeepSwipeActions,
          cat \in DeepSwipeCategories :
          /\ swipes_created < MaxDeepSwipes
          /\ CreateSwipe(user_id, "outfit_w1", action, cat)

SpecSwipes == InitSwipes /\ [][NextSwipes]_vars

----------------------------------------------------------------------------
(* SpecOutfit: one wardrobe of every category, built by add, update and   *)
(* remove, and the rule-based suggestion (no API key)                     *)

OutfitItems ==
    {[category |-> Some(c), occasions |-> o] :
        c \in {"Tops", "Dresses"}, o \in {None, Some(<<"Casual">>)}}
    \cup {[category |-> Some(c), occasions |-> o] :
        c \in {"Tops", "Bottoms", "Shoes"}, o \in {None, Some(<<"Work">>)}}
    \cup {[category |-> None, occasions |-> None],
          [category |-> Some("Outerwear"), occasions |-> None]}

OutfitItemUpdates ==
    {[NoItemUpdate EXCEPT !.occasions = Some(<<>>)],
     [NoItemUpdate EXCEPT !.category = Some("Tops")]}

OutfitOccasions == {"work", "casual", "formal"}

InitOutfit ==
    /\ users_db = <<>>
    /\ wardrobe_db = <<>>
    /\ swipes_db = <<>>
    /\ items_created = 0
    /\ swipes_created = 0
    /\ GEMINI_API_KEY = ""
    /\ resp = NoResponse
    /\ conversations = <<>>
    /\ lists = <<>>
    /\ tasks = <<>>

NextOutfit ==
    \/ \E item \in OutfitItems :
          /\ items_created < MaxItems
          /\ AddItem(NoSuchUser, item.category, item.occasions)
    \/ \E item_id \in 1..items_created, item_update \in OutfitItemUpdates :
          UpdateItem(item_id, item_update)
    \/ \E item_id \in 1..items_created : DeleteItem(item_id)
    \/ \E occasion \in OutfitOccasions :
          SelectOutfit(NoSuchUser, occasion, [kind |-> "raise", outfit |-> <<>>])

SpecOutfit == InitOutfit /\ [][NextOutfit]_vars

----------------------------------------------------------------------------
(* SpecOccasion: tops and bottoms with each occasion tag, and the         *)
(* rule-based suggestion asked for every occasion string                  *)

OccasionItems ==
    {[category |-> Some("Tops"), occasions |-> o] :
        o \in {None, Some(<<"Casual">>), Some(<<"Work">>), Some(<<"Formal">>),
               Some(<<"Party">>), Some(<<"Date">>)}}
    \cup {[category |-> Some("Bottoms"), occasions |-> o] :
        o \in {None, Some(<<"Formal">>), Some(<<"Date", "Casual">>)}}

NextOccasion ==
    \/ \E item \in OccasionItems :
          /\ items_created < MaxItems
          /\ AddItem(NoSuchUser, item.category, item.occasions)
    \/ \E item_id \in 1..items_created : DeleteItem(item_id)
    \/ \E occasion \in Occasions :
          SelectOutfit(NoSuchUser, occasion, [kind |-> "raise", outfit |-> <<>>])

SpecOccasion == InitOutfit /\ [][NextOccasion]_vars

----------------------------------------------------------------------------
(* SpecAi: one small wardrobe and the suggestion with every answer of the *)
(* AI Gateway, with and without an API key                                *)

AiWardrobeItems ==
    {[category |-> Some("Tops"), occasions |-> Some(<<"Work">>)],
     [category |-> Some("Bottoms"), occasions |-> None],
     [category |-> None, occasions |-> None]}

NextAi ==
    \/ \E item \in AiWardrobeItems :
          /\ items_created < MaxCreated
          /\ AddItem(NoSuchUser, item.category, item.occasions)
    \/ \E item_id \in 1..items_created : DeleteItem(item_id)
    \/ \E occasion \in {"work", "formal"}, ai \in AiAnswers :
          SelectOutfit(NoSuchUser, occasion, ai)

SpecAi == Init /\ [][NextAi]_vars

----------------------------------------------------------------------------
(* SpecGaps: a wardrobe filled category by category up to MaxPerCategory  *)
(* items of each, with or without another owner's earlier item, and the   *)
(* gap analysis                                                           *)

MaxPerCategory == 3

GapKinds ==
    <<Some("Shoes"), Some("Outerwear"), Some("Accessories"), Some("Bottoms"),
      Some("Tops"), None>>

\* Another user id that has no user record
OtherOwner == NoSuchUser + 1

\* The category an item of kind k is stored with
StoredCategory(k) == OrDefault(GapKinds[k], "", "Unknown")

NextGaps ==
    \/ \E k \in 1..Len(GapKinds) :
          LET w == Get(wardrobe_db, NoSuchUser, <<>>)
          IN  /\ Cardinality({i \in 1..Len(w) : w[i].category = StoredCategory(k)})
                    < MaxPerCategory
              /\ \A i \in 1..Len(w) : \E j \in 1..k : w[i].category = StoredCategory(j)
              /\ AddItem(NoSuchUser, GapKinds[k], None)
    \/ /\ items_created = 0
       /\ AddItem(OtherOwner, Some("Shoes"), None)
    \/ \E user_id \in {NoSuchUser, OtherOwner} : WardrobeGaps(user_id)

SpecGaps == InitOutfit /\ [][NextGaps]_vars

----------------------------------------------------------------------------
(* SpecStore: the wardrobe store with two owners: add, partial update,    *)
(* remove and the listing with and without a category filter              *)

MaxStoreItems == 2

Owners == {NoSuchUser, OtherOwner}

StoreItems ==
    {[category |-> Some("Tops"), occasions |-> None],
     [category |-> None, occasions |-> None]}

StoreItemUpdates ==
    {[NoItemUpdate EXCEPT !.category = Some("Shoes")],
     [NoItemUpdate EXCEPT !.favorite = Some(TRUE)],
     [NoItemUpdate EXCEPT !.category = Some("Tops"), !.favorite = Some(FALSE)]}

CategoryFilters == {None, Some("Tops"), Some("Shoes"), Some("All"), Some("")}

NextStore ==
    \/ \E user_id \in Owners, item \in StoreItems :
          /\ items_created < MaxStoreItems
          /\ AddItem(user_id, item.category, item.occasions)
    \/ \E item_id \in 1..(items_created + 1), item_update \in StoreItemUpdates :
          UpdateItem(item_id, item_update)
    \/ \E item_id \in 1..(items_created + 1) : DeleteItem(item_id)
    \/ \E user_id \in Owners, category \in CategoryFilters :
          GetWardrobe(user_id, category)

SpecStore == InitOutfit /\ [][NextStore]_vars

----------------------------------------------------------------------------
(* SpecPlanIds: the wardrobes of two owners and the suggestion, with and  *)
(* without an API key, for AI answers that name two different ids, stored *)
(* in the asker's wardrobe, in the other owner's, or nowhere              *)

PlanIdItems ==
    {[category |-> Some("Tops"), occasions |-> Some(<<"Work">>)],
     [category |-> Some("Bottoms"), occasions |-> None]}

PlanIdAnswers ==
    {[kind |-> "raise", outfit |-> <<>>]}
    \cup {ai \in {[kind |-> "ok", outfit |-> <<a, b>>] :
                         a \in {x \in AiItems : IsNone(x.type)},
                         b \in {x \in AiItems : IsNone(x.type)}} :
              ai.outfit[1].id # ai.outfit[2].id}

NextPlanIds ==
    \/ \E user_id \in Owners, item \in PlanIdItems :
          /\ items_created < MaxStoreItems
          /\ AddItem(user_id, item.category, item.occasions)
    \/ \E item_id \in 1..items_created : DeleteItem(item_id)
    \/ \E user_id \in Owners, ai \in PlanIdAnswers :
          SelectOutfit(user_id, "work", ai)

SpecPlanIds == Init /\ [][NextPlanIds]_vars

----------------------------------------------------------------------------
(* SpecLookup: the wardrobe store with two owners: add with and without   *)
(* category and occasions, update, remove and the lookup by id            *)

LookupItems ==
    {[category |-> Some("Tops"), occasions |-> Some(<<"Work">>)],
     [category |-> Some(""), occasions |-> Some(<<>>)],
     [category |-> None, occasions |-> None]}

LookupItemUpdates == {[NoItemUpdate EXCEPT !.favorite = Some(TRUE)]}

NextLookup ==
    \/ \E user_id \in Owners, item \in LookupItems :
          /\ items_created < MaxStoreItems
          /\ AddItem(user_id, item.category, item.occasions)
    \/ \E item_id \in 1..(items_created + 1), item_update \in LookupItemUpdates :
          UpdateItem(item_id, item_update)
    \/ \E item_id \in 1..(items_created + 1) : DeleteItem(item_id)
    \/ \E item_id \in 1..(items_created + 1) : GetWardrobeItem(item_id)

SpecLookup == InitOutfit /\ [][NextLookup]_vars

----------------------------------------------------------------------------
(* SpecSwipeLog: swipes of a user and of a user id without a user record, *)
(* read back with get_swipes, among user and wardrobe operations          *)

MaxLogged == 4

NextSwipeLog ==
    \/ \E name \in Names :
          /\ Created < MaxLogged
          /\ DOMAIN users_db = {}
          /\ CreateUser(name, Some("female"))
    \/ \E user_id \in ClientIds :
          UpdateUser(user_id, [NoUserUpdate EXCEPT !.onboarding_complete = Some(TRUE)])
    \/ \E user_id \in ClientIds, action \in {"like", "skip"} :
          /\ Created < MaxLogged
          /\ CreateSwipe(user_id, "outfit_w1", action, "classic")
    \/ \E user_id \in ClientIds : GetSwipes(user_id)
    \/ /\ Created < MaxLogged
       /\ items_created = 0
       /\ AddItem(NoSuchUser, None, None)
    \/ \E item_id \in 1..items_created : DeleteItem(item_id)

SpecSwipeLog == InitOutfit /\ [][NextSwipeLog]_vars

----------------------------------------------------------------------------
(* SpecSwipeRace: swipes of one user and of a user id without a user      *)
(* record that arrive while others wait, served in every order            *)

MaxRaceSwipes == 3

\* Requests whose handler has not run yet
Ready == {t \in DOMAIN tasks : tasks[t].pc = "ready"}

NextSwipeRace ==
    \/ /\ DOMAIN users_db = {}
       /\ CreateUser("Ann", Some("female"))
    \/ \E user_id \in ClientIds, action \in {"like", "dislike"} :
          /\ Cardinality(Ready) + swipes_created < MaxRaceSwipes
          /\ ReceiveSwipe(user_id, "o1", action, "classic")
    \/ \E t \in DOMAIN tasks : RunSwipe(t)
    \/ \E t \in DOMAIN tasks : Respond(t)

SpecSwipeRace == InitOutfit /\ [][NextSwipeRace]_vars

----------------------------------------------------------------------------
(* SpecChat: chat calls and clears of two users, one call at a time; the  *)
(* model call answers or raises. A conversation opens with "hello" and    *)
(* goes on with "more".                                                   *)

\* The stored history of a user (get_conversation_history)
History(user_id) ==
    IF user_id \in DOMAIN conversations THEN lists[conversations[user_id]] ELSE <<>>

Opening(user_id) == IF History(user_id) = <<>> THEN "hello" ELSE "more"

NextChat ==
    \/ \E user_id \in Owners :
          /\ DOMAIN tasks = {}
          /\ Chat(user_id, Opening(user_id))
    \/ \E t \in DOMAIN tasks, response \in {None, Some("sure")} :
          ChatResume(t, response)
    \/ \E user_id \in Owners :
          /\ DOMAIN tasks = {}
          /\ ClearConversation(user_id)

SpecChat == InitOutfit /\ [][NextChat]_vars

----------------------------------------------------------------------------
(* SpecChatRace: chat calls of one user suspended at the model call while *)
(* other chat calls and clears of the user run. Every call sends a        *)
(* message no list holds and no suspended call carries.                   *)

MaxRaceChats == 3

\* Message texts in a list or carried by a suspended call
TextsInUse ==
    UNION {{lists[r][i].content : i \in 1..Len(lists[r])} : r \in DOMAIN lists}
    \cup {tasks[t].message : t \in DOMAIN tasks}

NextChatRace ==
    \/ \E message \in 1..MaxRaceChats :
          /\ message \notin TextsInUse
          /\ \A smaller \in 1..(message - 1) : smaller \in TextsInUse
          /\ Chat(NoSuchUser, message)
    \/ \E t \in DOMAIN tasks :
          \E response \in {None, Some(tasks[t].message)} : ChatResume(t, response)
    \/ ClearConversation(NoSuchUser)

SpecChatRace == InitOutfit /\ [][NextChatRace]_vars

----------------------------------------------------------------------------
(* Vocabulary of the properties *)

SeqRange(list) == {list[i] : i \in 1..Len(list)}

Last(list) == list[Len(list)]

\* The step is a create_swipe call that names user u
SwipeStep(u) ==
    /\ resp'.op = "create_swipe"
    /\ swipes_created' = swipes_created + 1
    /\ u \in DOMAIN swipes_db'
    /\ swipes_db'[u] # <<>>
    /\ Last(swipes_db'[u]).id = swipes_created'

\* The last response is a plan of the rule-based selection
RuleBasedPlan ==
    /\ resp.op = "get_outfit_suggestion"
    /\ resp.body.success
    /\ resp.body.ai_powered = Some(FALSE)

Plan == resp.body.outfit[1]

\* The wardrobe the last suggestion was asked for
Asked == Get(wardrobe_db, resp.request.user_id, <<>>)

\* Indexes of the items of wardrobe w whose category is in cats
PoolOf(w, cats) == {i \in 1..Len(w) : w[i].category \in cats}

Intersects(item, tags) == SeqRange(item.occasions) \cap tags # {}

First(indexes) == CHOOSE i \in indexes : \A j \in indexes : i <= j

\* First index of the pool whose item carries one of the tags, or the
\* first index of the pool when none does
FirstMatchOrFirst(w, pool, tags) ==
    IF \E i \in pool : Intersects(w[i], tags)
    THEN First({i \in pool : Intersects(w[i], tags)})
    ELSE First(pool)

\* Entries of a plan with one of these types
Entries(plan, types) == {i \in 1..Len(plan) : plan[i].type \in types}

----------------------------------------------------------------------------
(* Outfit selection: C1, C8, C9, C10 (SpecOutfit) *)

\* C1: a plan never holds both an item of category Dresses and an item of
\* type Bottoms.
C1_NoDressWithBottom ==
    RuleBasedPlan =>
        ~ /\ \E i \in 1..Len(Plan) : Plan[i].type = "Dresses"
          /\ \E j \in 1..Len(Plan) : Plan[j].type = "Bottoms"

\* C8: with a non-empty tops-or-dresses pool the plan's top is the first
\* pool item in storage order whose occasions intersect the target tags, or
\* the first pool item when none does; with an empty pool there is no top.
C8_TopIsFirstMatchOrFirst ==
    RuleBasedPlan =>
        LET pool == PoolOf(Asked, {"Tops", "Dresses"})
            tags == SeqRange(occasion_map(resp.request.occasion))
        IN  IF pool = {}
            THEN Entries(Plan, {"Tops", "Dresses"}) = {}
            ELSE /\ Entries(Plan, {"Tops", "Dresses"}) = {1}
                 /\ Plan[1].id = Asked[FirstMatchOrFirst(Asked, pool, tags)].id
                 /\ Plan[1].type = Asked[FirstMatchOrFirst(Asked, pool, tags)].category

\* A later top that matches the occasion was preferred to an earlier one
\* that does not.
C8_Witness ==
    /\ RuleBasedPlan
    /\ \E i, j \in PoolOf(Asked, {"Tops", "Dresses"}) :
          /\ i < j
          /\ ~Intersects(Asked[i], SeqRange(occasion_map(resp.request.occasion)))
          /\ Intersects(Asked[j], SeqRange(occasion_map(resp.request.occasion)))
          /\ Plan[1].id = Asked[j].id

\* The tags the occasion lookup is said to give
ExpectedTags(occasion) ==
    IF occasion = "work" THEN {"Work", "Formal"}
    ELSE IF occasion = "casual" THEN {"Casual"}
    ELSE IF occasion \in {"date", "party"} THEN {"Party", "Date"}
    ELSE {"Casual"}

\* C9: work looks for Work or Formal, casual for Casual, date and party for
\* Date or Party, and any other occasion string for Casual, with the same
\* plan as occasion "casual".
C9_OccasionLookup ==
    RuleBasedPlan =>
        LET tags == ExpectedTags(resp.request.occasion)
            top_pool == PoolOf(Asked, {"Tops", "Dresses"})
            bottom_pool == PoolOf(Asked, {"Bottoms"})
        IN  /\ top_pool # {} =>
                  Plan[1].id = Asked[FirstMatchOrFirst(Asked, top_pool, tags)].id
            /\ \A i \in Entries(Plan, {"Bottoms"}) :
                  Plan[i].id = Asked[FirstMatchOrFirst(Asked, bottom_pool, tags)].id
            /\ resp.request.occasion \notin {"work", "casual", "date", "party"} =>
                  Plan = RuleBasedOutfit(Asked, "casual")

\* An occasion outside the table ("formal") passed over a Formal top and
\* took the Casual one behind it.
C9_Witness ==
    /\ RuleBasedPlan
    /\ resp.request.occasion = "formal"
    /\ \E i, j \in PoolOf(Asked, {"Tops", "Dresses"}) :
          /\ i < j
          /\ Asked[i].occasions = <<"Formal">>
          /\ Asked[j].occasions = <<"Casual">>
          /\ Plan[1].id = Asked[j].id

\* C10: the plan holds the first Shoes item in storage order, whatever its
\* tags and whatever else was selected, and no shoes when there is none.
C10_ShoesFirstInOrder ==
    RuleBasedPlan =>
        LET pool == PoolOf(Asked, {"Shoes"})
        IN  IF pool = {}
            THEN Entries(Plan, {"Shoes"}) = {}
            ELSE /\ Entries(Plan, {"Shoes"}) = {Len(Plan)}
                 /\ Last(Plan).id = Asked[First(pool)].id

\* Untagged shoes stored before shoes tagged Work were chosen for "work",
\* in a wardrobe with no top and no bottom.
C10_Witness ==
    /\ RuleBasedPlan
    /\ resp.request.occasion = "work"
    /\ Len(Plan) = 1
    /\ \E i, j \in PoolOf(Asked, {"Shoes"}) :
          /\ i < j
          /\ Asked[i].occasions = <<>>
          /\ Asked[j].occasions = <<"Work">>
          /\ Plan[1].id = Asked[i].id

----------------------------------------------------------------------------
(* Style DNA and swipe counter: C2 (SpecSwipes), C3..C7 (Spec) *)

\* C2: from a newly created user, after any run of like, superlike and
\* dislike swipes every score is within [0.0, 1.0].
C2_ScoresInRangeAfterSwipes ==
    \A u \in DOMAIN users_db :
        \A k \in DOMAIN users_db[u].style_dna :
            /\ users_db[u].style_dna[k] >= 0
            /\ users_db[u].style_dna[k] <= 100

\* Eleven superlikes in a row: the last one was cut off at 1.0.
C2_Witness ==
    \E u \in DOMAIN users_db :
        /\ u \in DOMAIN swipes_db
        /\ Len(swipes_db[u]) = 11
        /\ \A i \in 1..Len(swipes_db[u]) :
              /\ swipes_db[u][i].action = "superlike"
              /\ swipes_db[u][i].style_category = "classic"
        /\ users_db[u].style_dna["classic"] = 100
        /\ users_db[u].swipes_count = 11

\* C3: every stored user's vector has exactly the six keys and every value
\* is within [0.0, 1.0].
C3_VectorWellFormed ==
    \A u \in DOMAIN users_db :
        /\ DOMAIN users_db[u].style_dna = StyleKeys
        /\ \A k \in DOMAIN users_db[u].style_dna :
              /\ users_db[u].style_dna[k] >= 0
              /\ users_db[u].style_dna[k] <= 100

C5_SwipeAdjustsOneScore ==
    [][\A u \in DOMAIN users_db :
          SwipeStep(u) =>
              LET c == Last(swipes_db'[u]).style_category
                  a == Last(swipes_db'[u]).action
                  old == users_db[u].style_dna
                  new == users_db'[u].style_dna
              IN  (c \in DOMAIN old /\ a \in {"like", "superlike", "dislike"}) =>
                      /\ DOMAIN new = DOMAIN old
                      /\ a = "like" =>
                            new[c] = IF old[c] + 5 > 100 THEN 100 ELSE old[c] + 5
                      /\ a = "superlike" =>
                            new[c] = IF old[c] + 10 > 100 THEN 100 ELSE old[c] + 10
                      /\ a = "dislike" =>
                            new[c] = IF old[c] - 3 < 0 THEN 0 ELSE old[c] - 3
                      /\ \A k \in DOMAIN old \ {c} : new[k] = old[k]]_vars

\* A like on a score of 0.98 ended at 1.0, the other scores still at 0.98.
C5_Witness ==
    /\ resp.op = "create_swipe"
    /\ \E u \in DOMAIN users_db :
          /\ u \in DOMAIN swipes_db
          /\ Len(swipes_db[u]) = 1
          /\ swipes_db[u][1].action = "like"
          /\ swipes_db[u][1].style_category = "classic"
          /\ users_db[u].style_dna = [k \in StyleKeys |->
                                         IF k = "classic" THEN 100 ELSE 98]

\* C6: a swipe whose category is no key of the user's vector, or whose
\* action is none of like, dislike, superlike, leaves the vector as it was
\* and is answered without an error.
C6_UnrecognizedSwipeIgnored ==
    [][\A u \in DOMAIN users_db :
          SwipeStep(u) =>
              LET c == Last(swipes_db'[u]).style_category
                  a == Last(swipes_db'[u]).action
              IN  (c \notin DOMAIN users_db[u].style_dna
                       \/ a \notin {"like", "dislike", "superlike"}) =>
                      /\ users_db'[u].style_dna = users_db[u].style_dna
                      /\ resp'.status = 200]_vars

\* A swipe with the action "skip" on a key of the vector was recorded.
C6_Witness ==
    /\ resp.op = "create_swipe"
    /\ resp.status = 200
    /\ \E u \in DOMAIN users_db :
          /\ u \in DOMAIN swipes_db
          /\ Last(swipes_db[u]) = resp.body[1]
          /\ Last(swipes_db[u]).action = "skip"
          /\ Last(swipes_db[u]).style_category = "classic"
          /\ users_db[u].style_dna = DefaultStyleDna

\* C7: every create_swipe call adds exactly one to the swipe counter of the
\* user it names, whatever the category and action, and no step lowers a
\* counter.
C7_SwipeCounter ==
    [][\A u \in DOMAIN users_db :
          /\ SwipeStep(u) =>
                users_db'[u].swipes_count = users_db[u].swipes_count + 1
          /\ users_db'[u].swipes_count >= users_db[u].swipes_count]_vars

\* A dislike on an unknown category of a user whose scores are 0.0 was
\* counted.
C7_Witness ==
    /\ resp.op = "create_swipe"
    /\ \E u \in DOMAIN users_db :
          /\ u \in DOMAIN swipes_db
          /\ Last(swipes_db[u]) = resp.body[1]
          /\ Last(swipes_db[u]).action = "dislike"
          /\ Last(swipes_db[u]).style_category = "grunge"
          /\ users_db[u].style_dna = DefaultStyleDna
          /\ users_db[u].swipes_count = 1

----------------------------------------------------------------------------
(* Outfit selection and the AI Gateway: C11, C13 (Spec), C14 (SpecAi) *)

\* C11: a suggestion asked for a user id with no items, none ever added or
\* all removed, is answered without an error by success false and no
\* outfit, and the AI Gateway is not called.
C11_EmptyWardrobeNoOutfit ==
    (resp.op = "get_outfit_suggestion" /\ Asked = <<>>) =>
        /\ resp.status = 200
        /\ resp.body.success = FALSE
        /\ resp.body.outfit = None
        /\ resp.ai_called = FALSE

\* The API key is set and the one item of the asking user was removed
C11_Witness ==
    /\ resp.op = "get_outfit_suggestion"
    /\ GEMINI_API_KEY # ""
    /\ items_created > 0
    /\ resp.request.user_id \in DOMAIN wardrobe_db
    /\ wardrobe_db[resp.request.user_id] = <<>>
    /\ resp.body.success = FALSE
    /\ resp.ai_called = FALSE

\* Item ids of a suggestion's outfit, in order; none when there is no outfit
PlanIds(body) ==
    IF IsNone(body.outfit) THEN <<>>
    ELSE [i \in 1..Len(body.outfit[1]) |-> body.outfit[1][i].id]

\* C13: a suggestion asked again for the same user id and occasion, with no
\* change of the stores in between, returns the same item ids in the same
\* order.
C13_SameQuestionSamePlan ==
    [][(/\ resp.op = "get_outfit_suggestion"
        /\ resp'.op = "get_outfit_suggestion"
        /\ resp'.request = resp.request
        /\ wardrobe_db' = wardrobe_db)
       => PlanIds(resp'.body) = PlanIds(resp.body)]_vars

\* The AI Gateway gives no usable plan for wardrobe w: no API key, the call
\* raises, the answer reports a failure, or it names no item id of w
Unavailable(w, ai) ==
    \/ GEMINI_API_KEY = ""
    \/ ai.kind \in {"raise", "failure"}
    \/ \A k \in 1..Len(ai.outfit) :
           \A i \in 1..Len(w) : w[i].id # ai.outfit[k].id

\* C14: for a non-empty wardrobe, whenever the AI Gateway gives no usable
\* plan, the suggestion is the rule-based plan with ai_powered false, the
\* plan returned when no API key is configured; the failure is not passed on.
C14_FallbackOnAiFailure ==
    [][resp'.op = "get_outfit_suggestion" =>
         LET user_id == resp'.request.user_id
             occasion == resp'.request.occasion
             w == Get(wardrobe_db, user_id, <<>>)
         IN  \A ai \in AiAnswers :
                (SelectOutfit(user_id, occasion, ai) /\ w # <<>> /\ Unavailable(w, ai))
                => /\ resp'.status = 200
                   /\ resp'.body = [success |-> TRUE, occasion |-> Some(occasion),
                                    outfit |-> Some(RuleBasedOutfit(w, occasion)),
                                    ai_powered |-> Some(FALSE)]]_vars

\* With an API key set, the Gateway was called for a wardrobe with a top
\* and the answer is the rule-based plan
C14_Witness ==
    /\ resp.op = "get_outfit_suggestion"
    /\ GEMINI_API_KEY # ""
    /\ resp.ai_called
    /\ resp.body.success
    /\ resp.body.ai_powered = Some(FALSE)
    /\ Plan # <<>>

----------------------------------------------------------------------------
(* The rule-based plan: C12 (SpecOutfit) *)

\* Categories the rule-based selection draws from
Wearable == {"Tops", "Dresses", "Bottoms", "Shoes"}

\* C12: for a non-empty wardrobe built by add, update and remove, and any
\* occasion, the rule-based selection answers without an error by success
\* and a plan of at most three items: at most one top or dress, at most one
\* bottom, at most one pair of shoes, and nothing else; a wardrobe with no
\* item of these categories gets success and an empty plan.
C12_PlanShape ==
    (resp.op = "get_outfit_suggestion" /\ Asked # <<>>) =>
        /\ resp.status = 200
        /\ resp.body.success
        /\ resp.body.ai_powered = Some(FALSE)
        /\ Len(Plan) <= 3
        /\ Cardinality(Entries(Plan, {"Tops", "Dresses"})) <= 1
        /\ Cardinality(Entries(Plan, {"Bottoms"})) <= 1
        /\ Cardinality(Entries(Plan, {"Shoes"})) <= 1
        /\ Entries(Plan, Wearable) = 1..Len(Plan)
        /\ \A i \in 1..Len(Plan) : \E j \in 1..Len(Asked) : Asked[j].id = Plan[i].id
        /\ (PoolOf(Asked, Wearable) = {}) => (Plan = <<>>)

\* A wardrobe of an Outerwear item and an item of unknown category gets
\* success and an empty plan
C12_Witness ==
    /\ RuleBasedPlan
    /\ Len(Asked) >= 2
    /\ \E i \in 1..Len(Asked) : Asked[i].category = "Outerwear"
    /\ \E i \in 1..Len(Asked) : Asked[i].category = "Unknown"
    /\ PoolOf(Asked, Wearable) = {}
    /\ Plan = <<>>

----------------------------------------------------------------------------
(* Wardrobe gaps: C15, C16 (SpecGaps) *)

\* The last response is a gap analysis
GapsAnswered == resp.op = "get_wardrobe_gaps"

\* Number of items of wardrobe w whose category is in cats
Tally(w, cats) == Cardinality(PoolOf(w, cats))

RECURSIVE SumOver(_, _)
SumOver(f, keys) ==
    IF keys = {} THEN 0
    ELSE LET k == CHOOSE x \in keys : TRUE
         IN  f[k] + SumOver(f, keys \ {k})

\* C15: the gap analysis lists "White Sneakers" exactly when the user has
\* fewer than 2 Shoes, "Light Jacket" exactly when fewer than 1 Outerwear,
\* "Statement Bag" exactly when fewer than 2 Accessories and "Versatile
\* Chinos" exactly when fewer than 3 Bottoms, each rule on its own and in
\* this order; so four entries with no items and none at 2, 1, 2, 3.
C15_GapRules ==
    GapsAnswered =>
        resp.body.gaps =
            (IF Tally(Asked, {"Shoes"}) < 2 THEN <<"White Sneakers">> ELSE <<>>)
            \o (IF Tally(Asked, {"Outerwear"}) < 1 THEN <<"Light Jacket">> ELSE <<>>)
            \o (IF Tally(Asked, {"Accessories"}) < 2 THEN <<"Statement Bag">> ELSE <<>>)
            \o (IF Tally(Asked, {"Bottoms"}) < 3 THEN <<"Versatile Chinos">> ELSE <<>>)

\* The counts are exactly 2 Shoes, 1 Outerwear, 2 Accessories and 3 Bottoms
\* and the analysis lists nothing
C15_Witness ==
    /\ GapsAnswered
    /\ Tally(Asked, {"Shoes"}) = 2
    /\ Tally(Asked, {"Outerwear"}) = 1
    /\ Tally(Asked, {"Accessories"}) = 2
    /\ Tally(Asked, {"Bottoms"}) = 3
    /\ resp.body.gaps = <<>>

\* C16 as claimed: every item of the user is counted, items of a category
\* outside the six included, so the counts sum to the number of items.
C16_CountsSumToItems ==
    GapsAnswered =>
        SumOver(resp.body.category_counts, DOMAIN resp.body.category_counts)
            = Len(Asked)

\* C16: the counts have exactly the six fixed categories as keys and each
\* is the number of the user's items of that category; an item of any other
\* category is counted nowhere and triggers no rule, so the counts sum to
\* the number of the user's items whose category is one of the six.
C16_CountsOfSixCategories ==
    GapsAnswered =>
        /\ DOMAIN resp.body.category_counts = GapCategories
        /\ \A cat \in GapCategories :
              resp.body.category_counts[cat] = Tally(Asked, {cat})
        /\ SumOver(resp.body.category_counts, DOMAIN resp.body.category_counts)
              = Tally(Asked, GapCategories)

\* Items of category Unknown beside counted ones: the counts sum to less
\* than the number of items
C16_Witness ==
    /\ GapsAnswered
    /\ Tally(Asked, {"Unknown"}) > 0
    /\ Tally(Asked, GapCategories) > 0
    /\ SumOver(resp.body.category_counts, DOMAIN resp.body.category_counts)
          < Len(Asked)

----------------------------------------------------------------------------
(* The wardrobe store: C17 (Spec), C18, C19, C20 (SpecStore) *)

StoredItems == UNION {SeqRange(wardrobe_db[u]) : u \in DOMAIN wardrobe_db}

\* The list holds each of the items once, earlier created ones first
ListsInInsertionOrder(list, items) ==
    /\ SeqRange(list) = items
    /\ \A i, j \in 1..Len(list) : i < j => list[i].created_at < list[j].created_at

\* C18 as claimed: the listing returns the stored items owned by the user
\* id in insertion order, and with any category filter those of them whose
\* category equals the filter.
C18_ListingMatchesFilter ==
    resp.op = "get_wardrobe" =>
        /\ resp.status = 200
        /\ ListsInInsertionOrder(resp.body,
              {item \in StoredItems :
                  /\ item.user_id = resp.request.user_id
                  /\ \/ resp.request.category = None
                     \/ item.category = resp.request.category[1]})

\* C18: after any adds, updates and removes, the listing returns without
\* an error the stored items owned by the user id, in insertion order,
\* none for a user id without items; with a category filter other than
\* "All" and the empty string it returns those of them whose current
\* category equals the filter, and with the filter "All" or "" all of them.
C18_ListingMatchesFilterButAll ==
    resp.op = "get_wardrobe" =>
        /\ resp.status = 200
        /\ ListsInInsertionOrder(resp.body,
              {item \in StoredItems :
                  /\ item.user_id = resp.request.user_id
                  /\ \/ resp.request.category \in {None, Some("All"), Some("")}
                     \/ item.category = resp.request.category[1]})

\* Of two items of the user id the filter lists the second alone, which
\* was updated to the category asked for
C18_Witness ==
    /\ resp.op = "get_wardrobe"
    /\ resp.request.category = Some("Shoes")
    /\ Len(Asked) = 2
    /\ Len(resp.body) = 1
    /\ resp.body[1] = Asked[2]

\* C19: an update of a stored item sets the fields given in the request to
\* the given values and leaves the item's other fields, its place in its
\* owner's sequence and every other item of every user id unchanged.
C19_UpdateSetsGivenFields ==
    [][resp'.op = "update_wardrobe_item" =>
         \A item_id \in 1..items_created, item_update \in StoreItemUpdates :
            (UpdateItem(item_id, item_update)
               /\ \E item \in StoredItems : item.id = item_id)
            => /\ resp'.status = 200
               /\ DOMAIN wardrobe_db' = DOMAIN wardrobe_db
               /\ \A u \in DOMAIN wardrobe_db :
                     /\ Len(wardrobe_db'[u]) = Len(wardrobe_db[u])
                     /\ \A i \in 1..Len(wardrobe_db[u]) :
                           LET old == wardrobe_db[u][i]
                               new == wardrobe_db'[u][i]
                           IN  IF old.id # item_id THEN new = old
                               ELSE /\ DOMAIN new = DOMAIN old
                                    /\ \A f \in DOMAIN old :
                                          IF f \in DOMAIN item_update
                                             /\ item_update[f] # None
                                          THEN new[f] = item_update[f][1]
                                          ELSE new[f] = old[f]]_vars

\* The first of two items of a user id was updated to a new category and
\* is still first, unmarked as favorite
C19_Witness ==
    /\ resp.op = "update_wardrobe_item"
    /\ resp.status = 200
    /\ \E u \in DOMAIN wardrobe_db :
          /\ Len(wardrobe_db[u]) = 2
          /\ wardrobe_db[u][1].id = resp.body[1]
          /\ wardrobe_db[u][1].category = "Shoes"
          /\ wardrobe_db[u][1].favorite = FALSE
          /\ wardrobe_db[u][2].favorite = TRUE

\* C20: as long as an item is stored, whatever operations run, it keeps
\* its id, its owning user id and its creation timestamp, and stays in its
\* owner's sequence.
C20_IdentityOwnerStampKept ==
    [][\A u \in DOMAIN wardrobe_db, v \in DOMAIN wardrobe_db' :
         \A i \in 1..Len(wardrobe_db[u]), j \in 1..Len(wardrobe_db'[v]) :
            wardrobe_db[u][i].id = wardrobe_db'[v][j].id
            => /\ u = v
               /\ wardrobe_db'[v][j].user_id = wardrobe_db[u][i].user_id
               /\ wardrobe_db'[v][j].created_at = wardrobe_db[u][i].created_at]_vars

\* An item updated in category and in favorite, after a later item was
\* added, is stored with the id, owner and timestamp of its creation
C20_Witness ==
    /\ resp.op = "update_wardrobe_item"
    /\ resp.status = 200
    /\ items_created = 2
    /\ \E item \in StoredItems :
          /\ item.id = 1
          /\ item.id = resp.body[1]
          /\ item.category = "Shoes"
          /\ item.favorite
          /\ item.created_at = 1
          /\ item.user_id = OtherOwner

----------------------------------------------------------------------------
(* Lookup and removal: C21, C22, C23 (SpecLookup) *)

\* An item with this id is stored
Stored(item_id) == \E item \in StoredItems : item.id = item_id

\* C21: the lookup, an update and a removal that name an item id which is
\* not stored, because it was never created or was removed, each answer
\* not found and leave the wardrobe store unchanged.
C21_AbsentIdNotFound ==
    [][\A item_id \in 1..(items_created + 1) :
         (~ Stored(item_id)
            /\ \/ GetWardrobeItem(item_id)
               \/ DeleteItem(item_id)
               \/ \E item_update \in LookupItemUpdates : UpdateItem(item_id, item_update))
         => /\ resp'.status = 404
            /\ resp'.body = None
            /\ wardrobe_db' = wardrobe_db]_vars

\* The lookup of a removed id was answered not found while another item
\* is stored
C21_Witness ==
    /\ resp.op = "get_wardrobe_item"
    /\ resp.status = 404
    /\ resp.request.item_id <= items_created
    /\ StoredItems # {}

\* The ids of a list, in order
IdsOf(list) == [i \in 1..Len(list) |-> list[i].id]

\* C22: the removal of a stored item answers success and removes that item
\* alone: every list keeps its other items, with their fields and in their
\* order; the id is not stored afterwards and never again, and a lookup
\* of an id handed out before that is not stored answers not found.
C22_RemoveExactlyOne ==
    [][/\ \A item_id \in 1..items_created :
            (Stored(item_id) /\ DeleteItem(item_id))
            => /\ resp'.status = 200
               /\ DOMAIN wardrobe_db' = DOMAIN wardrobe_db
               /\ \A u \in DOMAIN wardrobe_db :
                     wardrobe_db'[u] =
                        SelectSeq(wardrobe_db[u], LAMBDA item : item.id # item_id)
               /\ Cardinality(StoredItems') = Cardinality(StoredItems) - 1
       /\ \A item_id \in 1..items_created :
            ~ Stored(item_id) =>
               /\ ~ Stored(item_id)'
               /\ GetWardrobeItem(item_id) => resp'.status = 404]_vars

\* The first of two items of a list was removed and the second is left
C22_Witness ==
    /\ resp.op = "delete_wardrobe_item"
    /\ resp.status = 200
    /\ items_created = 2
    /\ \E u \in DOMAIN wardrobe_db :
          /\ DOMAIN wardrobe_db = {u}
          /\ IdsOf(wardrobe_db[u]) = <<2>>

\* The step looks up the item the add before it returned
LookupAfterAdd ==
    /\ resp.op = "create_wardrobe_item"
    /\ resp'.op = "get_wardrobe_item"
    /\ resp'.request.item_id = resp.body[1].id

\* C23 as claimed: the lookup right after an add, by the id the add
\* returned, returns an item whose fields equal the submitted values, with
\* the id and the creation timestamp the add returned.
C23_RoundTripSubmitted ==
    [][LookupAfterAdd =>
         /\ resp'.status = 200
         /\ resp'.body[1].id = resp.body[1].id
         /\ resp'.body[1].created_at = resp.body[1].created_at
         /\ resp'.body[1].user_id = resp.request.user_id
         /\ resp.request.category # None =>
               resp'.body[1].category = resp.request.category[1]
         /\ resp.request.occasions # None =>
               resp'.body[1].occasions = resp.request.occasions[1]]_vars

\* C23: the lookup right after an add, by the id the add returned, returns
\* the item the add returned, with its id and creation timestamp: the
\* submitted user id, the submitted category if one was submitted and is
\* not empty and "Unknown" otherwise, the submitted occasions if any were
\* submitted and none otherwise.
C23_RoundTripWithDefaults ==
    [][LookupAfterAdd =>
         /\ resp'.status = 200
         /\ resp'.body = resp.body
         /\ resp'.body[1].user_id = resp.request.user_id
         /\ resp'.body[1].category =
               IF resp.request.category \in {None, Some("")}
               THEN "Unknown" ELSE resp.request.category[1]
         /\ resp'.body[1].occasions =
               IF resp.request.occasions = None
               THEN <<>> ELSE resp.request.occasions[1]]_vars

\* A second item, submitted with a category and occasions, was added to a
\* list and looked up
C23_Witness ==
    /\ resp.op = "get_wardrobe_item"
    /\ resp.status = 200
    /\ resp.request.item_id = 2
    /\ resp.body[1].category = "Tops"
    /\ resp.body[1].occasions = <<"Work">>
    /\ \E u \in DOMAIN wardrobe_db : IdsOf(wardrobe_db[u]) = <<1, 2>>

----------------------------------------------------------------------------
(* The swipe log: C24, C28 (SpecSwipeLog) *)

IsPrefix(s, t) == Len(s) <= Len(t) /\ SubSeq(t, 1, Len(s)) = s

\* C24: every create_swipe appends one record to the swipe sequence of the
\* user id it names and to no other, no operation changes, reorders or
\* drops a recorded swipe, and get_swipes returns the stored sequence; so
\* what get_swipes returns is a prefix of what it returns later.
C24_SwipesAppendOnly ==
    [][/\ \A u \in DOMAIN swipes_db :
            /\ u \in DOMAIN swipes_db'
            /\ IsPrefix(swipes_db[u], swipes_db'[u])
       /\ resp'.op = "create_swipe" =>
            LET u == resp'.body[1].user_id
            IN  /\ swipes_db' = Put(swipes_db, u,
                                    Append(Get(swipes_db, u, <<>>), resp'.body[1]))
                /\ \A v \in DOMAIN swipes_db :
                      \A i \in 1..Len(swipes_db[v]) :
                         swipes_db[v][i].id # resp'.body[1].id
       /\ resp'.op # "create_swipe" => swipes_db' = swipes_db
       /\ resp'.op = "get_swipes" =>
            resp'.body = Get(swipes_db, resp'.request.user_id, <<>>)]_vars

\* get_swipes returned two records of a user id, between which a swipe of
\* another user id was recorded
C24_Witness ==
    /\ resp.op = "get_swipes"
    /\ resp.status = 200
    /\ Len(resp.body) = 2
    /\ resp.body[1].id = 1
    /\ resp.body[2].id = 3

\* C28: a create_swipe naming a user id without a user record succeeds: it
\* appends the record to the swipe sequence of that id and returns it,
\* and leaves users_db as it is, with no new user and every user's
\* style_dna and swipes_count unchanged.
C28_SwipeWithoutUser ==
    [][(resp'.op = "create_swipe" /\ resp'.body[1].user_id \notin DOMAIN users_db)
       => /\ resp'.status = 200
          /\ Last(swipes_db'[resp'.body[1].user_id]) = resp'.body[1]
          /\ Len(swipes_db'[resp'.body[1].user_id])
                = Len(Get(swipes_db, resp'.body[1].user_id, <<>>)) + 1
          /\ users_db' = users_db]_vars

\* A like for a user id without a user record was recorded while a user
\* with a swipe of their own exists
C28_Witness ==
    /\ resp.op = "create_swipe"
    /\ resp.body[1].user_id \notin DOMAIN users_db
    /\ resp.body[1].action = "like"
    /\ Last(swipes_db[resp.body[1].user_id]) = resp.body[1]
    /\ \E u \in DOMAIN users_db : users_db[u].swipes_count = 1

----------------------------------------------------------------------------
(* The bottom of the rule-based plan: C26 (SpecOutfit) *)

\* C26: in the rule-based selection, whenever the selected top has category
\* Tops and the wardrobe holds a Bottoms item, the plan holds a bottom: the
\* first Bottoms item in storage order whose occasions intersect the target
\* tags, or the first Bottoms item when none does; also when a Dresses
\* item precedes the selected Tops item in storage order.
C26_BottomWithSelectedTops ==
    (/\ RuleBasedPlan
     /\ Plan # <<>>
     /\ Plan[1].type = "Tops"
     /\ PoolOf(Asked, {"Bottoms"}) # {}) =>
        LET pool == PoolOf(Asked, {"Bottoms"})
            tags == SeqRange(occasion_map(resp.request.occasion))
        IN  \E j \in Entries(Plan, {"Bottoms"}) :
                Plan[j].id = Asked[FirstMatchOrFirst(Asked, pool, tags)].id

----------------------------------------------------------------------------
(* The ids of a plan: C27 (SpecPlanIds) *)

\* Items stored for another user than user_id
ItemsOfOthers(user_id) ==
    UNION {{wardrobe_db[v][i] : i \in 1..Len(wardrobe_db[v])} :
               v \in DOMAIN wardrobe_db \ {user_id}}

\* C27: every item id of a plan returned by get_outfit_suggestion for a
\* user is the id of an item stored in that user's own wardrobe, on the AI
\* path and on the rule-based path; an id the AI Gateway names that is not
\* in the user's wardrobe is dropped, and no item of another user appears.
C27_PlanIdsOfOwnWardrobe ==
    (resp.op = "get_outfit_suggestion" /\ resp.body.success) =>
        \A i \in 1..Len(Plan) :
            /\ \E j \in 1..Len(Asked) :
                  /\ Asked[j].id = Plan[i].id
                  /\ Asked[j].user_id = resp.request.user_id
            /\ \A item \in ItemsOfOthers(resp.request.user_id) :
                  item.id # Plan[i].id

\* An AI-powered plan of one item while another user owns an item: every
\* answer of the Gateway names two different ids, so one was dropped
C27_Witness ==
    /\ resp.op = "get_outfit_suggestion"
    /\ resp.body.success
    /\ resp.body.ai_powered = Some(TRUE)
    /\ Len(Plan) = 1
    /\ ItemsOfOthers(resp.request.user_id) # {}

----------------------------------------------------------------------------
(* Swipes in flight together: C25 (SpecSwipeRace) *)

\* The user record after the swipes of a log, applied oldest first
RECURSIVE Replay(_, _)
Replay(user, swipes) ==
    IF swipes = <<>> THEN user
    ELSE Replay(SwipeUser(user, Head(swipes).style_category, Head(swipes).action),
                Tail(swipes))

\* The user records the waiting requests of pending can leave, over every
\* order in which the event loop can run their handlers
RECURSIVE Outcomes(_, _)
Outcomes(user, pending) ==
    IF pending = {} THEN {user}
    ELSE UNION {Outcomes(SwipeUser(user, tasks[t].style_category, tasks[t].action),
                         pending \ {t}) : t \in pending}

\* final reflects only one of the swipes a and b made on base
OnlyOneReflected(base, final, a, b) ==
    LET only(t) == SwipeUser(base, tasks[t].style_category, tasks[t].action)
        both(t, u) == SwipeUser(only(t), tasks[u].style_category, tasks[u].action)
    IN  \/ final.swipes_count = base.swipes_count + 1
        \/ /\ final.style_dna \in {only(a).style_dna, only(b).style_dna}
           /\ final.style_dna \notin {both(a, b).style_dna, both(b, a).style_dna}

\* C25 as stated: when two recordSwipe requests for the same user wait
\* together, some order of serving them leaves the user's swipe counter or
\* reinforced score reflecting only one of the two swipes.
C25_LostUpdateReachable ==
    \A a \in Ready, b \in Ready :
        (/\ a # b
         /\ Ready = {a, b}
         /\ tasks[a].user_id = tasks[b].user_id
         /\ tasks[a].user_id \in DOMAIN users_db) =>
            \E final \in Outcomes(users_db[tasks[a].user_id], {a, b}) :
                OnlyOneReflected(users_db[tasks[a].user_id], final, a, b)

\* C25, amended: recordSwipe requests in flight together are served one at
\* a time, so after every interleaving each user's swipe counter and
\* scores are those of all the user's logged swipes applied in log order:
\* no update is lost.
C25_NoLostUpdate ==
    \A u \in DOMAIN users_db :
        users_db[u] =
            Replay([users_db[u] EXCEPT !.swipes_count = 0,
                                       !.style_dna = DefaultStyleDna],
                   Get(swipes_db, u, <<>>))

\* Two swipes of one user, a like and a dislike, were in flight together
\* and both were served: the counter is 2
C25_Witness ==
    \E a \in DOMAIN tasks, b \in DOMAIN tasks :
        /\ a # b
        /\ tasks[a].pc = "done" /\ tasks[b].pc = "done"
        /\ tasks[a].user_id = tasks[b].user_id
        /\ tasks[a].action # tasks[b].action
        /\ tasks[a].user_id \in DOMAIN users_db
        /\ users_db[tasks[a].user_id].swipes_count = 2

----------------------------------------------------------------------------
(* The stored conversation: C29 (SpecChat), C30 (SpecChatRace) *)

\* At most HistoryLimit messages, an even number of them, a human message
\* and an AI message in turn
WellFormed(history) ==
    /\ Len(history) <= HistoryLimit
    /\ Len(history) % 2 = 0
    /\ \A i \in 1..Len(history) :
          history[i].type = IF i % 2 = 1 THEN "human" ELSE "ai"

\* C29: after any sequence of chat calls, answered or failing, and
\* clear_conversation calls made one at a time, the stored history of every
\* user has at most 20 messages, has even length and alternates human
\* message then AI message; a failing chat call adds no message (neither
\* its part before the model call nor its part after the failure changes
\* any stored history).
C29_HistoriesWellFormed ==
    [][\A u \in Owners :
          /\ WellFormed(History(u)')
          /\ (\/ DOMAIN tasks = {} /\ DOMAIN tasks' # {}
              \/ DOMAIN tasks # {} /\ DOMAIN tasks' = {} /\ ~resp'.body.success)
             => History(u)' = History(u)]_vars

\* A conversation that opened with "hello" has been cut: after an answered
\* chat call a user's stored history holds 20 messages and starts with
\* "more"
C29_Witness ==
    /\ DOMAIN tasks = {}
    /\ resp.op = "chat"
    /\ resp.body.success
    /\ resp.body.message_count = Some(HistoryLimit \div 2)
    /\ Len(History(resp.request.user_id)) = HistoryLimit
    /\ History(resp.request.user_id)[1] = HumanMessage("more")

\* Messages of the lists that suspended chat calls of a user hold, which
\* are not in the user's stored history. Without a cut of the history only
\* clear_conversation takes a message out of the stored history, and every
\* message of a list was stored when it was appended: these are the
\* messages a clear has removed.
Cleared(user_id) ==
    UNION {SeqRange(lists[tasks[t].history]) :
               t \in {t \in DOMAIN tasks : /\ tasks[t].kind = "chat"
                                            /\ tasks[t].user_id = user_id}}
    \ SeqRange(History(user_id))

\* C30: once clear_conversation(u) has completed, no message that was in
\* u's history before the clear is in u's stored history again, whatever
\* chat calls of u were suspended at the model call when the clear ran.
C30_ClearedStayCleared ==
    [][\A m \in Cleared(NoSuchUser) : m \notin SeqRange(History(NoSuchUser)')]_vars
====
